---------------------------- MODULE Spec2Model ----------------------------
(***************************************************************************)
(* Model of the personal-assistant API: the Reply loop and the Title       *)
(* generation of the Assistant (assistant.go), the tool registry and       *)
(* Dispatch (tools/tools.go), the tools' Handle outcomes, and the chat     *)
(* server's StartConversation.                                             *)
(***************************************************************************)
EXTENDS Integers, Sequences, FiniteSets, TLC

(***************************************************************************)
(* Bounds of the model and constants of the program.                       *)
(***************************************************************************)

\* longest list of tool calls the modelled backend puts in one response
MaxToolCalls == 2

\* assistant.go: for i := 0; i < 15; i++
MaxRoundTrips == 15

Nil == "<nil>"

\* error values of Reply (assistant.go)
ErrNoMessages == "conversation has no messages"
ErrNoChoices == "no choices returned by OpenAI"
ErrTooManyToolCalls == "too many tool calls, unable to generate reply"

\* ctx.Err() after cancellation, as the backend client returns it
ErrCanceled == "context canceled"

\* errors the backend client can return from Chat.Completions.New
BackendErrors == {"openai: 429 rate limited", "openai: connection reset"}

ReplySystemPrompt == "You are a helpful, concise AI assistant. Provide accurate, safe, and clear responses."

(***************************************************************************)
(* model.Role and the messages of a conversation.                          *)
(***************************************************************************)
RoleUser == "user"
RoleAssistant == "assistant"

Msg(role, content) == [role |-> role, content |-> content]

\* the conversations Reply is invoked on
Conversations ==
    { <<>>,
      << Msg(RoleUser, "hi"), Msg(RoleAssistant, "hello"),
         Msg(RoleUser, "What is the weather in Barcelona?") >> }

(***************************************************************************)
(* openai message params: one shape for every role.                        *)
(***************************************************************************)
Param(role, content, id, calls) ==
    [role |-> role, content |-> content, tool_call_id |-> id, tool_calls |-> calls]

SystemMessage(content) == Param("system", content, 0, <<>>)
UserMessage(content) == Param("user", content, 0, <<>>)
AssistantMessage(content) == Param("assistant", content, 0, <<>>)
ToolMessage(content, id) == Param("tool", content, id, <<>>)

\* message.ToParam(): the assistant message of a response, tool calls kept
ToParam(message) == Param("assistant", message.content, 0, message.tool_calls)


(***************************************************************************)
(* Tool calls of a backend response (openai tool-call union).              *)
(***************************************************************************)
NameArgs(name, arguments) == [name |-> name, arguments |-> arguments]

FunctionCall(name, arguments) ==
    [type |-> "function", function |-> NameArgs(name, arguments), custom |-> NameArgs("", "")]
CustomCall(name, input) ==
    [type |-> "custom", function |-> NameArgs("", ""), custom |-> NameArgs(name, input)]
OtherCall == [type |-> "", function |-> NameArgs("", ""), custom |-> NameArgs("", "")]

\* argument strings: one that json.Unmarshal accepts, one it rejects
GoodArgs == "{\"location\":\"Barcelona\"}"
BadArgs == "{\"location\":"
JSONValid(arguments) == arguments # BadArgs

\* the tool calls the modelled backend can ask for
ToolCallKinds ==
    { FunctionCall("get_today_date", "{}"),
      FunctionCall("get_weather", GoodArgs),
      FunctionCall("get_weather", BadArgs),
      FunctionCall("send_email", "{}"),
      CustomCall("get_weather", GoodArgs),
      OtherCall }

\* the response that does not use up the script's one varied response
PlainCall == FunctionCall("get_today_date", "{}")

WithID(call, id) ==
    [id |-> id, type |-> call.type, function |-> call.function, custom |-> call.custom]

\* correlation id of the j-th tool call of the n-th backend response
CallID(n, j) == 100 * n + j

(***************************************************************************)
(* The tools (tools/weather.go, date.go, holidays.go, timezone.go).        *)
(* Handle's result is (result, err); env is what the network did.          *)
(***************************************************************************)
Ok(result) == [result |-> result, err |-> Nil]
Fail(err) == [result |-> "", err |-> err]

\* the outcome of a Dispatch that ran no Handle
NoHandle == [result |-> "", err |-> Nil]

WeatherHandle(arguments, env) ==
    IF ~JSONValid(arguments) THEN Fail("invalid weather parameters")
    ELSE IF env = "fail" THEN Fail("failed to fetch weather")
    ELSE Ok("Weather in Barcelona: Sunny")

DateHandle(arguments, env) == Ok("2025-12-15T14:00:00Z")

HolidaysHandle(arguments, env) ==
    IF ~JSONValid(arguments) THEN Fail("invalid holiday parameters")
    ELSE IF env = "fail" THEN Fail("failed to load holiday calendar")
    ELSE Ok("No holidays found matching the criteria.")

TimeZoneHandle(arguments, env) ==
    IF ~JSONValid(arguments) THEN Fail("invalid timezone parameters")
    ELSE IF env = "fail" THEN Fail("invalid source timezone")
    ELSE Ok("Time Conversion")

\* a registered tool: its Name(), the name inside its Definition()
Tool(name, defname) == [name |-> name, defname |-> defname]

Handle(tool, arguments, env) ==
    CASE tool.name = "get_weather" -> WeatherHandle(arguments, env)
      [] tool.name = "get_today_date" -> DateHandle(arguments, env)
      [] tool.name = "get_holidays" -> HolidaysHandle(arguments, env)
      [] tool.name = "convert_timezone" -> TimeZoneHandle(arguments, env)

\* (variant: the date tool is advertised under another name than its Name())
RegisteredToolsRenamed ==
    << Tool("get_weather", "get_weather"),
       Tool("get_today_date", "get_date"),
       Tool("get_holidays", "get_holidays"),
       Tool("convert_timezone", "convert_timezone") >>

\* a.tools as New() sets it
RegisteredTools ==
    << Tool("get_weather", "get_weather"),
       Tool("get_today_date", "get_today_date"),
       Tool("get_holidays", "get_holidays"),
       Tool("convert_timezone", "convert_timezone") >>

\* (variant: each definition is put in front of the ones collected so far)
DefinitionsNewestFirst(tools) ==
    [t \in 1..Len(tools) |-> tools[Len(tools) + 1 - t].defname]

\* tools.Definitions
Definitions(tools) == [t \in 1..Len(tools) |-> tools[t].defname]

(***************************************************************************)
(* tools.Dispatch                                                          *)
(***************************************************************************)
FunctionName(call) ==
    IF call.type = "function" THEN call.function.name ELSE call.custom.name
Arguments(call) ==
    IF call.type = "function" THEN call.function.arguments ELSE call.custom.arguments

KnownType(call) == call.type \in {"function", "custom"}

\* indexes of the tools whose Name() is the requested name, for range's first match
Matches(tools, name) == { t \in 1..Len(tools) : tools[t].name = name }
FirstMatch(tools, name) ==
    CHOOSE t \in Matches(tools, name) : \A u \in Matches(tools, name) : t <= u

\* whether Dispatch runs a Handle for this call
RunsHandle(tools, call) == KnownType(call) /\ Matches(tools, FunctionName(call)) # {}

\* the result of the Handle that Dispatch runs for this call
Handled(tools, call, env) ==
    Handle(tools[FirstMatch(tools, FunctionName(call))], Arguments(call), env)

HandleFails(tools, call, env) ==
    RunsHandle(tools, call) /\ Handled(tools, call, env).err # Nil

\* (variant: the unknown-type branch forgets the call id)
DispatchDropsID(tools, call, env) ==
    IF ~KnownType(call)
    THEN ToolMessage("Unknown tool call type: " \o call.type, 0)
    ELSE IF Matches(tools, FunctionName(call)) = {}
    THEN ToolMessage("Unknown tool: " \o FunctionName(call), call.id)
    ELSE LET h == Handled(tools, call, env)
         IN  IF h.err # Nil
             THEN ToolMessage("Tool failed: " \o h.err, call.id)
             ELSE ToolMessage(h.result, call.id)

Dispatch(tools, call, env) ==
    IF ~KnownType(call)
    THEN ToolMessage("Unknown tool call type: " \o call.type, call.id)
    ELSE IF Matches(tools, FunctionName(call)) = {}
    THEN ToolMessage("Unknown tool: " \o FunctionName(call), call.id)
    ELSE LET h == Handled(tools, call, env)
         IN  IF h.err # Nil
             THEN ToolMessage("Tool failed: " \o h.err, call.id)
             ELSE ToolMessage(h.result, call.id)


(***************************************************************************)
(* State of one Reply invocation (assistant.go, Assistant.Reply).          *)
(*   conv      the conversation passed in                                  *)
(*   tools     a.tools                                                     *)
(*   pc        where Reply is: "start", "call" (about to call the          *)
(*             backend), "dispatch" (in the loop over message.ToolCalls),  *)
(*             "done" (returned)                                           *)
(*   i         the loop variable                                           *)
(*   msgs      the local history                                           *)
(*   resp      the last backend response; next is the index of the tool    *)
(*             call the inner loop is at                                   *)
(*   reply,err the values returned                                         *)
(* History variables, not read by Reply: backendCalls counts the calls of  *)
(* Chat.Completions.New, sent is the Messages of the last one, sentTools   *)
(* its Tools, handled counts the Handle executions, failed holds the ids   *)
(* of the tool calls whose Handle returned an error, varied tells whether  *)
(* the backend has already given its one response that is not a single     *)
(* get_today_date call, outcome is what the Handle run by the last          *)
(* Dispatch returned. cancelled tells whether ctx has been cancelled.      *)
(***************************************************************************)
VARIABLES conv, tools, pc, i, msgs, resp, next, reply, err,
          backendCalls, sent, sentTools, handled, failed, varied, outcome,
          cancelled

(***************************************************************************)
(* State of the chat server (Server.StartConversation) and its repository. *)
(*   repo       the conversations the repository holds                     *)
(*   spc        where StartConversation is: "idle", "waiting" (at          *)
(*              wg.Wait), "returned"                                       *)
(*   request    the message of the request being served                    *)
(*   conversation  the conversation built for it                           *)
(*   titleTask, replyTask  the two goroutines: "none", "spawned",          *)
(*              "running", "done"                                          *)
(*   titleRes, replyRes    what Title and Reply returned                   *)
(*   out, serr  the response and error StartConversation returned          *)
(* History variables: started counts the requests, titleCalls and          *)
(* replyCalls the calls of Title and Reply for the current request,        *)
(* replyFailed holds the ids of the conversations whose Reply failed.      *)
(***************************************************************************)
VARIABLES repo, spc, request, conversation, titleTask, replyTask,
          titleRes, replyRes, out, serr, started, titleCalls, replyCalls,
          replyFailed

(***************************************************************************)
(* State of one Title invocation (assistant.go, Assistant.Title), on the   *)
(* conversation conv.                                                      *)
(*   tpc        where Title is: "start", "call" (about to call the         *)
(*              backend), "done" (returned)                                *)
(*   tmsgs      the messages built for the backend                         *)
(*   tresp      the backend's response                                     *)
(*   title, terr  the values returned; a title is a sequence of characters *)
(* History variable: tcalls counts the calls of Chat.Completions.New.      *)
(***************************************************************************)
VARIABLES tpc, tmsgs, tresp, title, terr, tcalls

(***************************************************************************)
(* State of one GetForecast call of the weather client (weather.go).       *)
(*   apiKey     the client's key                                           *)
(*   days       the days argument of the call                              *)
(*   fpc        where GetForecast is: "start", "sent" (request sent,       *)
(*              waiting for httpClient.Do), "done" (returned)              *)
(*   freq       the request sent: its key, q and days parameters           *)
(*   fresult    what GetForecast returned                                  *)
(* State of one TimeZoneTool.Handle call (tools/timezone.go).              *)
(*   tzArgs     the args string, as the JSON text it holds                 *)
(*   tzpc       "start" or "done"                                          *)
(*   tzOut      the (result, err) returned                                 *)
(* State of the Reply invocations that run at once on the Assistant.       *)
(*   runs       for each invocation its conversation, its Reply state and  *)
(*              the response it is working on                              *)
(***************************************************************************)
VARIABLES apiKey, days, fpc, freq, fresult, tzArgs, tzpc, tzOut, runs

forecastVars == <<apiKey, days, fpc, freq, fresult>>

timeZoneVars == <<tzArgs, tzpc, tzOut>>

libVars == <<forecastVars, timeZoneVars, runs>>

titleVars == <<tpc, tmsgs, tresp, title, terr, tcalls>>

serverVars == <<repo, spc, request, conversation, titleTask, replyTask,
                titleRes, replyRes, out, serr, started, titleCalls, replyCalls,
                replyFailed>>

replyVars == <<conv, tools, pc, i, msgs, resp, next, reply, err,
               backendCalls, sent, sentTools, handled, failed, varied, outcome,
               cancelled>>

NoResponse == [kind |-> "none", err |-> Nil, content |-> "", tool_calls |-> <<>>]
ErrorResponse(e) == [kind |-> "error", err |-> e, content |-> "", tool_calls |-> <<>>]
NoChoices == [kind |-> "nochoices", err |-> Nil, content |-> "", tool_calls |-> <<>>]
Choice(content, calls) == [kind |-> "choice", err |-> Nil, content |-> content, tool_calls |-> calls]

\* texts of a first choice
Contents == {"", "It is sunny in Barcelona."}

\* lists of 1..MaxToolCalls tool calls, ids given by the backend for response n
CallLists(n) ==
    UNION { { [j \in 1..len |-> WithID(f[j], CallID(n, j))] : f \in [1..len -> ToolCallKinds] }
            : len \in 1..MaxToolCalls }

PlainCalls(n) == << WithID(PlainCall, CallID(n, 1)) >>

IsPlain(r, n) == r.kind = "choice" /\ r.content = "" /\ r.tool_calls = PlainCalls(n)

\* what the n-th call of the backend can answer: without tool calls, with the
\* single get_today_date call, or with any list of tool calls
FinalResponses ==
    { ErrorResponse(e) : e \in BackendErrors }
    \cup { NoChoices }
    \cup { Choice(c, <<>>) : c \in Contents }

PlainResponses(n) == FinalResponses \cup { Choice("", PlainCalls(n)) }

Responses(n) ==
    FinalResponses
    \cup { Choice("", calls) : calls \in CallLists(n) }
    \cup { Choice(c, calls) : c \in Contents, calls \in { l \in CallLists(n) : Len(l) = 1 } }

\* (variant: only the user's turns are taken over)
RECURSIVE SeedUserTurns(_)
SeedUserTurns(messages) ==
    IF messages = <<>> THEN <<>>
    ELSE LET m == messages[Len(messages)]
             front == SeedUserTurns(SubSeq(messages, 1, Len(messages) - 1))
         IN  CASE m.role = RoleUser -> Append(front, UserMessage(m.content))
               [] OTHER -> front

\* conv.Messages turned into the first history (Reply, the range over conv.Messages)
RECURSIVE Seed(_)
Seed(messages) ==
    IF messages = <<>> THEN <<>>
    ELSE LET m == messages[Len(messages)]
             front == Seed(SubSeq(messages, 1, Len(messages) - 1))
         IN  CASE m.role = RoleUser -> Append(front, UserMessage(m.content))
               [] m.role = RoleAssistant -> Append(front, AssistantMessage(m.content))
               [] OTHER -> front

ReplyInit ==
    /\ conv \in Conversations
    /\ tools = RegisteredTools
    /\ pc = "start"
    /\ i = 0
    /\ msgs = <<>>
    /\ resp = NoResponse
    /\ next = 0
    /\ reply = ""
    /\ err = Nil
    /\ backendCalls = 0
    /\ sent = <<>>
    /\ sentTools = <<>>
    /\ handled = 0
    /\ failed = {}
    /\ varied = FALSE
    /\ outcome = NoHandle
    /\ cancelled = FALSE

\* what the network does to a Handle that uses it: with ctx cancelled, the
\* request fails
Environments == IF cancelled THEN {"fail"} ELSE {"ok", "fail"}

\* what the Handle run by Dispatch returned, if one ran
Outcome(ts, call, env) ==
    IF RunsHandle(ts, call) THEN Handled(ts, call, env) ELSE NoHandle

\* return reply, err
Return(r, e) ==
    /\ pc' = "done"
    /\ reply' = r
    /\ err' = e

\* Reply up to the loop: the empty-conversation check and the first history
ReplyStart ==
    /\ pc = "start"
    /\ IF Len(conv) = 0
       THEN /\ Return("", ErrNoMessages)
            /\ UNCHANGED msgs
       ELSE /\ msgs' = <<SystemMessage(ReplySystemPrompt)>> \o Seed(conv)
            /\ pc' = "call"
            /\ UNCHANGED <<reply, err>>
    /\ UNCHANGED <<conv, tools, i, resp, next, backendCalls, sent, sentTools, handled,
                   failed, varied, outcome, cancelled>>
    /\ UNCHANGED <<serverVars, titleVars, libVars>>

\* (variant: the loop has no bound on its passes)
ContinueUnbounded ==
    /\ i' = i + 1
    /\ pc' = "call"
    /\ UNCHANGED <<reply, err>>

\* (variant: the loop test off by one, i <= 15)
ContinueOffByOne ==
    /\ i' = i + 1
    /\ IF i + 1 <= MaxRoundTrips
       THEN /\ pc' = "call"
            /\ UNCHANGED <<reply, err>>
       ELSE Return("", ErrTooManyToolCalls)

\* the loop's step and test, after `continue`
Continue ==
    /\ i' = i + 1
    /\ IF i + 1 < MaxRoundTrips
       THEN /\ pc' = "call"
            /\ UNCHANGED <<reply, err>>
       ELSE Return("", ErrTooManyToolCalls)

\* (variant: an empty text is not returned, the loop goes on)
OnResponseRetriesEmpty(r) ==
    IF r.kind = "error"
    THEN /\ Return("", r.err)
         /\ UNCHANGED <<msgs, i, next>>
    ELSE IF r.kind = "nochoices"
    THEN /\ Return("", ErrNoChoices)
         /\ UNCHANGED <<msgs, i, next>>
    ELSE IF Len(r.tool_calls) > 0
    THEN /\ msgs' = Append(msgs, ToParam(r))
         /\ next' = 1
         /\ pc' = "dispatch"
         /\ UNCHANGED <<reply, err, i>>
    ELSE IF r.content = ""
    THEN /\ Continue
         /\ UNCHANGED <<msgs, next>>
    ELSE /\ Return(r.content, Nil)
         /\ UNCHANGED <<msgs, i, next>>

\* (variant: a failed backend call is retried in the next pass of the loop)
OnResponseRetriesOnError(r) ==
    IF r.kind = "error"
    THEN /\ Continue
         /\ UNCHANGED <<msgs, next>>
    ELSE IF r.kind = "nochoices"
    THEN /\ Return("", ErrNoChoices)
         /\ UNCHANGED <<msgs, i, next>>
    ELSE IF Len(r.tool_calls) > 0
    THEN /\ msgs' = Append(msgs, ToParam(r))
         /\ next' = 1
         /\ pc' = "dispatch"
         /\ UNCHANGED <<reply, err, i>>
    ELSE /\ Return(r.content, Nil)
         /\ UNCHANGED <<msgs, i, next>>

\* (variant: a text is returned even when the response asks for tools)
OnResponsePrefersText(r) ==
    IF r.kind = "error"
    THEN /\ Return("", r.err)
         /\ UNCHANGED <<msgs, i, next>>
    ELSE IF r.kind = "nochoices"
    THEN /\ Return("", ErrNoChoices)
         /\ UNCHANGED <<msgs, i, next>>
    ELSE IF Len(r.tool_calls) > 0 /\ r.content = ""
    THEN /\ msgs' = Append(msgs, ToParam(r))
         /\ next' = 1
         /\ pc' = "dispatch"
         /\ UNCHANGED <<reply, err, i>>
    ELSE /\ Return(r.content, Nil)
         /\ UNCHANGED <<msgs, i, next>>

\* (variant: a response without choices is reported as the round-trip limit)
OnResponseNoChoicesAsLimit(r) ==
    IF r.kind = "error"
    THEN /\ Return("", r.err)
         /\ UNCHANGED <<msgs, i, next>>
    ELSE IF r.kind = "nochoices"
    THEN /\ Return("", ErrTooManyToolCalls)
         /\ UNCHANGED <<msgs, i, next>>
    ELSE IF Len(r.tool_calls) > 0
    THEN /\ msgs' = Append(msgs, ToParam(r))
         /\ next' = 1
         /\ pc' = "dispatch"
         /\ UNCHANGED <<reply, err, i>>
    ELSE /\ Return(r.content, Nil)
         /\ UNCHANGED <<msgs, i, next>>

\* what Reply does with the response r of a.cli.Chat.Completions.New
OnResponse(r) ==
    IF r.kind = "error"
    THEN /\ Return("", r.err)
         /\ UNCHANGED <<msgs, i, next>>
    ELSE IF r.kind = "nochoices"
    THEN /\ Return("", ErrNoChoices)
         /\ UNCHANGED <<msgs, i, next>>
    ELSE IF Len(r.tool_calls) > 0
    THEN /\ msgs' = Append(msgs, ToParam(r))
         /\ next' = 1
         /\ pc' = "dispatch"
         /\ UNCHANGED <<reply, err, i>>
    ELSE /\ Return(r.content, Nil)
         /\ UNCHANGED <<msgs, i, next>>

\* Responses for the calls the loop can make, as a table
ResponsesAt == [n \in 1..MaxRoundTrips |-> Responses(n)]

ResponsesTo(n) == IF n \in 1..MaxRoundTrips THEN ResponsesAt[n] ELSE Responses(n)

\* one call of the backend with the current history, and Reply's reaction
CallBackend ==
    /\ pc = "call"
    /\ \E r \in IF cancelled THEN { ErrorResponse(ErrCanceled) }
                ELSE IF varied THEN PlainResponses(backendCalls + 1)
                ELSE ResponsesTo(backendCalls + 1) :
          /\ varied' = (varied \/ (Len(r.tool_calls) > 0 /\ ~IsPlain(r, backendCalls + 1)))
          /\ resp' = r
          /\ OnResponse(r)
    /\ backendCalls' = backendCalls + 1
    /\ sent' = msgs
    /\ sentTools' = Definitions(tools)
    /\ UNCHANGED <<conv, tools, handled, failed, outcome, cancelled>>
    /\ UNCHANGED <<serverVars, titleVars, libVars>>

\* (variant: a failed Handle is returned as Reply's error)
DispatchCallAbortsOnFailure ==
    /\ pc = "dispatch"
    /\ \E env \in Environments :
          /\ outcome' = Outcome(tools, resp.tool_calls[next], env)
          /\ failed' = IF HandleFails(tools, resp.tool_calls[next], env)
                       THEN failed \cup {resp.tool_calls[next].id}
                       ELSE failed
          /\ IF HandleFails(tools, resp.tool_calls[next], env)
             THEN /\ Return("", Handled(tools, resp.tool_calls[next], env).err)
                  /\ UNCHANGED <<msgs, i, next>>
             ELSE /\ msgs' = Append(msgs, Dispatch(tools, resp.tool_calls[next], env))
                  /\ IF next < Len(resp.tool_calls)
                     THEN /\ next' = next + 1
                          /\ UNCHANGED <<pc, i, reply, err>>
                     ELSE /\ next' = 0
                          /\ Continue
    /\ handled' = IF RunsHandle(tools, resp.tool_calls[next]) THEN handled + 1 ELSE handled
    /\ UNCHANGED <<conv, tools, resp, backendCalls, sent, sentTools, varied, cancelled>>
    /\ UNCHANGED <<serverVars, titleVars, libVars>>

\* (variant: the tool calls run concurrently and a result can overtake
\* the result appended before it)
DispatchCallUnordered ==
    /\ pc = "dispatch"
    /\ \E env \in Environments :
          /\ outcome' = Outcome(tools, resp.tool_calls[next], env)
          /\ msgs' \in
                { Append(msgs, Dispatch(tools, resp.tool_calls[next], env)),
                  IF msgs[Len(msgs)].role = "tool"
                  THEN SubSeq(msgs, 1, Len(msgs) - 1)
                       \o << Dispatch(tools, resp.tool_calls[next], env), msgs[Len(msgs)] >>
                  ELSE Append(msgs, Dispatch(tools, resp.tool_calls[next], env)) }
          /\ failed' = IF HandleFails(tools, resp.tool_calls[next], env)
                       THEN failed \cup {resp.tool_calls[next].id}
                       ELSE failed
    /\ handled' = IF RunsHandle(tools, resp.tool_calls[next]) THEN handled + 1 ELSE handled
    /\ IF next < Len(resp.tool_calls)
       THEN /\ next' = next + 1
            /\ UNCHANGED <<pc, i, reply, err>>
       ELSE /\ next' = 0
            /\ Continue
    /\ UNCHANGED <<conv, tools, resp, backendCalls, sent, sentTools, varied, cancelled>>
    /\ UNCHANGED <<serverVars, titleVars, libVars>>

\* one pass of the loop over message.ToolCalls: Dispatch and append
DispatchCall ==
    /\ pc = "dispatch"
    /\ \E env \in Environments :
          /\ outcome' = Outcome(tools, resp.tool_calls[next], env)
          /\ msgs' = Append(msgs, Dispatch(tools, resp.tool_calls[next], env))
          /\ failed' = IF HandleFails(tools, resp.tool_calls[next], env)
                       THEN failed \cup {resp.tool_calls[next].id}
                       ELSE failed
    /\ handled' = IF RunsHandle(tools, resp.tool_calls[next]) THEN handled + 1 ELSE handled
    /\ IF next < Len(resp.tool_calls)
       THEN /\ next' = next + 1
            /\ UNCHANGED <<pc, i, reply, err>>
       ELSE /\ next' = 0
            /\ Continue
    /\ UNCHANGED <<conv, tools, resp, backendCalls, sent, sentTools, varied, cancelled>>
    /\ UNCHANGED <<serverVars, titleVars, libVars>>

(***************************************************************************)
(* Reply as a function: what one step of Reply makes of its position, its  *)
(* locals and the calls made so far (a record s), given the conversation,  *)
(* the backend's response and the outcome of the tool's Handle.            *)
(***************************************************************************)

\* tools.Dispatch, from the outcome h of the Handle it ran
DispatchWith(ts, call, h) ==
    IF ~KnownType(call)
    THEN ToolMessage("Unknown tool call type: " \o call.type, call.id)
    ELSE IF Matches(ts, FunctionName(call)) = {}
    THEN ToolMessage("Unknown tool: " \o FunctionName(call), call.id)
    ELSE IF h.err # Nil
    THEN ToolMessage("Tool failed: " \o h.err, call.id)
    ELSE ToolMessage(h.result, call.id)

Returned(s, r, e) == [s EXCEPT !.pc = "done", !.reply = r, !.err = e]

\* Reply up to the loop
AfterStart(s, messages) ==
    IF Len(messages) = 0 THEN Returned(s, "", ErrNoMessages)
    ELSE [s EXCEPT !.pc = "call",
                   !.msgs = <<SystemMessage(ReplySystemPrompt)>> \o Seed(messages)]

\* the loop's step and test
AfterContinue(s) ==
    IF s.i + 1 < MaxRoundTrips
    THEN [s EXCEPT !.i = s.i + 1, !.pc = "call"]
    ELSE Returned([s EXCEPT !.i = s.i + 1], "", ErrTooManyToolCalls)

\* the backend call and what follows the response r
AfterResponse(s, r) ==
    LET called == [s EXCEPT !.backendCalls = s.backendCalls + 1, !.sent = s.msgs]
    IN  IF r.kind = "error" THEN Returned(called, "", r.err)
        ELSE IF r.kind = "nochoices" THEN Returned(called, "", ErrNoChoices)
        ELSE IF Len(r.tool_calls) > 0
        THEN [called EXCEPT !.msgs = Append(s.msgs, ToParam(r)),
                            !.next = 1,
                            !.pc = "dispatch"]
        ELSE Returned(called, r.content, Nil)

\* one pass of the loop over the tool calls of r, the Handle returning h
AfterDispatch(s, ts, r, h) ==
    LET appended ==
            [s EXCEPT !.msgs = Append(s.msgs, DispatchWith(ts, r.tool_calls[s.next], h))]
    IN  IF s.next < Len(r.tool_calls)
        THEN [appended EXCEPT !.next = s.next + 1]
        ELSE AfterContinue([appended EXCEPT !.next = 0])

StepReply(s, messages, ts, r, h) ==
    CASE s.pc = "start" -> AfterStart(s, messages)
      [] s.pc = "call" -> AfterResponse(s, r)
      [] s.pc = "dispatch" -> AfterDispatch(s, ts, r, h)
      [] OTHER -> s

\* the caller cancels ctx while Reply is running
Cancel ==
    /\ pc \in {"call", "dispatch"}
    /\ ~cancelled
    /\ cancelled' = TRUE
    /\ UNCHANGED <<conv, tools, pc, i, msgs, resp, next, reply, err, backendCalls,
                   sent, sentTools, handled, failed, varied, outcome>>
    /\ UNCHANGED <<serverVars, titleVars, libVars>>


(***************************************************************************)
(* The chat server: StartConversation with the two concurrent tasks.       *)
(***************************************************************************)

\* requests served in one run of the model
MaxRequests == 2

DefaultTitle == "Untitled conversation"
ErrInvalidArgument == "twirp error invalid_argument: message is required"

RequestMessages == {"   ", "Test message", "What is the weather like in Barcelona?"}

\* strings.TrimSpace(message) == ""
IsBlank(message) == message \in {"", " ", "   "}

\* what the Assistant's Title and Reply can return to the server
TitleOutcomes == { Ok("Weather in Barcelona"), Fail("simulated title generation error") }
ReplyOutcomes ==
    { Ok("Barcelona has beautiful weather today!"),
      Fail("simulated reply generation error"),
      Fail(ErrTooManyToolCalls) }

NoConversation == [id |-> 0, title |-> "", messages |-> <<>>]
NoOutcome == [result |-> "", err |-> Nil]
NoOut == [conversation_id |-> 0, title |-> "", reply |-> ""]

ServerInit ==
    /\ repo = {}
    /\ spc = "idle"
    /\ request = ""
    /\ conversation = NoConversation
    /\ titleTask = "none"
    /\ replyTask = "none"
    /\ titleRes = NoOutcome
    /\ replyRes = NoOutcome
    /\ out = NoOut
    /\ serr = Nil
    /\ started = 0
    /\ titleCalls = 0
    /\ replyCalls = 0
    /\ replyFailed = {}

\* the conversation StartConversation builds from the request
NewConversation(id, message) ==
    [id |-> id, title |-> DefaultTitle, messages |-> << Msg(RoleUser, message) >>]

\* StartConversation up to wg.Wait: validate, build the conversation, start both tasks
StartConversation ==
    /\ spc \in {"idle", "returned"}
    /\ started < MaxRequests
    /\ started' = started + 1
    /\ titleCalls' = 0
    /\ replyCalls' = 0
    /\ titleRes' = NoOutcome
    /\ replyRes' = NoOutcome
    /\ \E message \in RequestMessages :
          /\ request' = message
          /\ IF IsBlank(message)
             THEN /\ spc' = "returned"
                  /\ out' = NoOut
                  /\ serr' = ErrInvalidArgument
                  /\ conversation' = NoConversation
                  /\ titleTask' = "none"
                  /\ replyTask' = "none"
             ELSE /\ spc' = "waiting"
                  /\ conversation' = NewConversation(started + 1, message)
                  /\ titleTask' = "spawned"
                  /\ replyTask' = "spawned"
                  /\ UNCHANGED <<out, serr>>
    /\ UNCHANGED <<repo, replyFailed>>
    /\ UNCHANGED <<replyVars, titleVars, libVars>>

\* the title goroutine calls s.assist.Title
TitleBegin ==
    /\ titleTask = "spawned"
    /\ titleTask' = "running"
    /\ titleCalls' = titleCalls + 1
    /\ UNCHANGED <<repo, spc, request, conversation, replyTask, titleRes, replyRes,
                   out, serr, started, replyCalls, replyFailed>>
    /\ UNCHANGED <<replyVars, titleVars, libVars>>

\* Title returns; wg.Done
TitleEnd ==
    /\ titleTask = "running"
    /\ titleTask' = "done"
    /\ titleRes' \in TitleOutcomes
    /\ UNCHANGED <<repo, spc, request, conversation, replyTask, replyRes,
                   out, serr, started, titleCalls, replyCalls, replyFailed>>
    /\ UNCHANGED <<replyVars, titleVars, libVars>>

\* the reply goroutine calls s.assist.Reply
ReplyBegin ==
    /\ replyTask = "spawned"
    /\ replyTask' = "running"
    /\ replyCalls' = replyCalls + 1
    /\ UNCHANGED <<repo, spc, request, conversation, titleTask, titleRes, replyRes,
                   out, serr, started, titleCalls, replyFailed>>
    /\ UNCHANGED <<replyVars, titleVars, libVars>>

\* Reply returns; wg.Done
ReplyEnd ==
    /\ replyTask = "running"
    /\ replyTask' = "done"
    /\ \E o \in ReplyOutcomes :
          /\ replyRes' = o
          /\ replyFailed' = IF o.err # Nil THEN replyFailed \cup {conversation.id}
                                            ELSE replyFailed
    /\ UNCHANGED <<repo, spc, request, conversation, titleTask, titleRes,
                   out, serr, started, titleCalls, replyCalls>>
    /\ UNCHANGED <<replyVars, titleVars, libVars>>

\* (variant: the title is taken from the title task whatever its error)
ChosenTitleIgnoresError(c, t) == t.result

\* the title StartConversation keeps: the generated one, or the default on error
ChosenTitle(c, t) == IF t.err # Nil THEN c.title ELSE t.result

\* (variant: the title is set, the reply is returned but not appended)
CompletedWithoutReply(c, t, r) ==
    [id |-> c.id, title |-> ChosenTitle(c, t), messages |-> c.messages]

\* the conversation as persisted: title set, assistant message appended
Completed(c, t, r) ==
    [id |-> c.id,
     title |-> ChosenTitle(c, t),
     messages |-> Append(c.messages, Msg(RoleAssistant, r.result))]

\* (variant: StartConversation gives up only when both tasks failed)
FatalOnlyIfBothFail(t, r) == r.err # Nil /\ t.err # Nil

\* whether StartConversation gives up after the join
Fatal(t, r) == r.err # Nil

\* (variant: the wait group counts the reply task only)
ReplyTaskDone(t, r) == r = "done"

\* wg.Wait returns: both tasks have called wg.Done
BothTasksDone(t, r) == t = "done" /\ r = "done"

\* StartConversation after wg.Wait: the reply's error is returned, else the
\* conversation is stored and the response built
Join ==
    /\ spc = "waiting"
    /\ BothTasksDone(titleTask, replyTask)
    /\ spc' = "returned"
    /\ IF Fatal(titleRes, replyRes)
       THEN /\ serr' = replyRes.err
            /\ out' = NoOut
            /\ UNCHANGED <<repo, conversation>>
       ELSE /\ conversation' = Completed(conversation, titleRes, replyRes)
            /\ repo' = repo \cup {conversation'}
            /\ out' = [conversation_id |-> conversation.id,
                       title |-> conversation'.title,
                       reply |-> replyRes.result]
            /\ serr' = Nil
    /\ UNCHANGED <<request, titleTask, replyTask, titleRes, replyRes, started,
                   titleCalls, replyCalls, replyFailed>>
    /\ UNCHANGED <<replyVars, titleVars, libVars>>

ServerNext == StartConversation \/ TitleBegin \/ TitleEnd \/ ReplyBegin \/ ReplyEnd \/ Join

(***************************************************************************)
(* Assistant.Title. The backend's text is handled byte by byte, so the     *)
(* content of a response and a title are sequences of one-character        *)
(* strings.                                                                *)
(***************************************************************************)

\* longest body of a response's padding (leading, and trailing or embedded)
MaxPad == 2

\* the system instruction of Title (its first sentence)
TitleSystemPrompt == "You are a title generator."
ErrEmptyTitle == "empty response from OpenAI for title generation"

\* "An empty conversation"
EmptyConversationTitle ==
    << "A", "n", " ", "e", "m", "p", "t", "y", " ",
       "c", "o", "n", "v", "e", "r", "s", "a", "t", "i", "o", "n" >>

\* the length Title cuts at
TitleMaxLen == 80

\* the characters strings.TrimSpace removes (unicode.IsSpace, ASCII part
\* without the vertical tab)
WhiteSpace == {" ", "\t", "\n", "\f", "\r"}

\* the cutset of Title's strings.Trim
TitleCutset == {" ", "\t", "\r", "\n", "-", "\"", "'"}

\* strings.ReplaceAll for a one-character old and new
ReplaceAll(s, old, new) == [k \in 1..Len(s) |-> IF s[k] = old THEN new ELSE s[k]]

\* strings.TrimLeft, strings.TrimRight
RECURSIVE TrimLeft(_, _)
TrimLeft(s, cutset) ==
    IF s = <<>> \/ s[1] \notin cutset THEN s ELSE TrimLeft(Tail(s), cutset)

RECURSIVE TrimRight(_, _)
TrimRight(s, cutset) ==
    IF s = <<>> \/ s[Len(s)] \notin cutset THEN s
    ELSE TrimRight(SubSeq(s, 1, Len(s) - 1), cutset)

\* strings.Trim
Trim(s, cutset) == TrimRight(TrimLeft(s, cutset), cutset)

\* strings.TrimSpace
TrimSpace(s) == Trim(s, WhiteSpace)

\* if len(title) > 80 { title = title[:80] }
Truncate(s) == IF Len(s) > TitleMaxLen THEN SubSeq(s, 1, TitleMaxLen) ELSE s

\* (variant: line breaks are trimmed at the ends only, not replaced)
CleanTitleKeepsLineBreaks(content) == Truncate(Trim(content, TitleCutset))

\* Title's post-processing of the response's content
CleanTitle(content) == Truncate(Trim(ReplaceAll(content, "\n", " "), TitleCutset))

\* the characters a response pads its text with, one of each kind Title
\* tells apart: the line break, a blank of the cutset, a blank outside the
\* cutset, the dash, a quote; and the paddings
PadChars == {"\n", " ", "\f", "-", "\""}
Pads == UNION { [1..n -> PadChars] : n \in 0..MaxPad }

Letters(n) == [k \in 1..n |-> "a"]

\* the content of a title response: padding, letters, padding, letters
TitleContent(pre, n, post, m) == pre \o Letters(n) \o post \o Letters(m)

\* the numbers of letters: few, or around the length Title cuts at
BodyLengths == {0, 1, TitleMaxLen - 1, TitleMaxLen}
TailLengths == {0, 2}

TitleNoResponse == [kind |-> "none", err |-> Nil, content |-> <<>>]
TitleError(e) == [kind |-> "error", err |-> e, content |-> <<>>]
TitleNoChoices == [kind |-> "nochoices", err |-> Nil, content |-> <<>>]
TitleChoice(content) == [kind |-> "choice", err |-> Nil, content |-> content]

\* the responses without a text
TitleFailures == { TitleError(e) : e \in BackendErrors } \cup { TitleNoChoices }

TitleInit ==
    /\ tpc = "start"
    /\ tmsgs = <<>>
    /\ tresp = TitleNoResponse
    /\ title = <<>>
    /\ terr = Nil
    /\ tcalls = 0

\* the range over conv.Messages: every message becomes a user message
TitleMessages(messages) ==
    [k \in 1..Len(messages) |-> UserMessage(messages[k].content)]

\* (variant: the backend is asked about the empty conversation too)
TitleStartAlwaysCalls ==
    /\ tpc = "start"
    /\ tmsgs' = <<SystemMessage(TitleSystemPrompt)>> \o TitleMessages(conv)
    /\ tpc' = "call"
    /\ UNCHANGED <<title, terr, tresp, tcalls>>
    /\ UNCHANGED <<replyVars, serverVars, libVars>>

\* (variant: the range loop rewrites each message of the conversation as a
\* user message in place)
TitleStartRelabels ==
    /\ tpc = "start"
    /\ IF Len(conv) = 0
       THEN /\ tpc' = "done"
            /\ title' = EmptyConversationTitle
            /\ terr' = Nil
            /\ UNCHANGED <<tmsgs, conv>>
       ELSE /\ tmsgs' = <<SystemMessage(TitleSystemPrompt)>> \o TitleMessages(conv)
            /\ conv' = [k \in 1..Len(conv) |-> Msg(RoleUser, conv[k].content)]
            /\ tpc' = "call"
            /\ UNCHANGED <<title, terr>>
    /\ UNCHANGED <<tresp, tcalls>>
    /\ UNCHANGED <<tools, pc, i, msgs, resp, next, reply, err, backendCalls, sent,
                   sentTools, handled, failed, varied, outcome, cancelled>>
    /\ UNCHANGED <<serverVars, libVars>>

\* Title up to the backend call: the empty-conversation check and the messages
TitleStart ==
    /\ tpc = "start"
    /\ IF Len(conv) = 0
       THEN /\ tpc' = "done"
            /\ title' = EmptyConversationTitle
            /\ terr' = Nil
            /\ UNCHANGED tmsgs
       ELSE /\ tmsgs' = <<SystemMessage(TitleSystemPrompt)>> \o TitleMessages(conv)
            /\ tpc' = "call"
            /\ UNCHANGED <<title, terr>>
    /\ UNCHANGED <<tresp, tcalls>>
    /\ UNCHANGED <<replyVars, serverVars, libVars>>

\* what Title returns for the response r
TitleOnResponse(r) ==
    IF r.kind = "error"
    THEN /\ title' = <<>>
         /\ terr' = r.err
    ELSE IF r.kind = "nochoices" \/ TrimSpace(r.content) = <<>>
    THEN /\ title' = <<>>
         /\ terr' = ErrEmptyTitle
    ELSE /\ title' = CleanTitle(r.content)
         /\ terr' = Nil

\* the one backend call of Title and the return
TitleCall ==
    /\ tpc = "call"
    /\ \/ \E r \in TitleFailures :
             /\ tresp' = r
             /\ TitleOnResponse(r)
       \/ \E pre \in Pads, post \in Pads, n \in BodyLengths, m \in TailLengths :
             /\ tresp' = TitleChoice(TitleContent(pre, n, post, m))
             /\ TitleOnResponse(TitleChoice(TitleContent(pre, n, post, m)))
    /\ tpc' = "done"
    /\ tcalls' = tcalls + 1
    /\ UNCHANGED tmsgs
    /\ UNCHANGED <<replyVars, serverVars, libVars>>

TitleNext == TitleStart \/ TitleCall

(***************************************************************************)
(* The weather client's GetForecast (weather.go).                          *)
(***************************************************************************)
\* how far outside 1..10 the days arguments of the model go
DaysBeyond == 4

\* weather.go: if days < 1 { days = 1 }; if days > 10 { days = 10 }
MinForecastDays == 1
MaxForecastDays == 10

WeatherAPIKey == "test-key"
ErrNoAPIKey == "WEATHER_API_KEY environment variable not set"

\* the days arguments: around the range, and of large magnitude
DaysValues ==
    ((MinForecastDays - DaysBeyond)..(MaxForecastDays + DaysBeyond))
    \cup {-2147483647, 2147483647}

\* (variant: only the upper end is checked)
ClampDaysUpperOnly(d) ==
    IF d > MaxForecastDays THEN MaxForecastDays ELSE d

\* the two tests on days, in the code's order
ClampDays(d) ==
    LET raised == IF d < MinForecastDays THEN MinForecastDays ELSE d
    IN  IF raised > MaxForecastDays THEN MaxForecastDays ELSE raised

NoForecastRequest == [key |-> "", q |-> "", days |-> 0]
NoForecast == [forecastDays |-> 0, err |-> Nil]

\* what httpClient.Do and the decoding can give
HTTPOutcomes == {"ok", "transport error", "status 401", "bad body"}

ForecastReturn(o, sentDays) ==
    CASE o = "ok" -> [forecastDays |-> sentDays, err |-> Nil]
      [] o = "transport error" -> [forecastDays |-> 0, err |-> "failed to fetch forecast"]
      [] o = "status 401" -> [forecastDays |-> 0, err |-> "weather API returned status 401"]
      [] OTHER -> [forecastDays |-> 0, err |-> "failed to decode response"]

ForecastInit ==
    /\ apiKey \in {"", WeatherAPIKey}
    /\ days \in DaysValues
    /\ fpc = "start"
    /\ freq = NoForecastRequest
    /\ fresult = NoForecast

\* GetForecast up to httpClient.Do: the key check, the clamp, the request URL
ForecastRequest ==
    /\ fpc = "start"
    /\ IF apiKey = ""
       THEN /\ fpc' = "done"
            /\ fresult' = [forecastDays |-> 0, err |-> ErrNoAPIKey]
            /\ UNCHANGED freq
       ELSE /\ freq' = [key |-> apiKey, q |-> "Barcelona", days |-> ClampDays(days)]
            /\ fpc' = "sent"
            /\ UNCHANGED fresult
    /\ UNCHANGED <<apiKey, days>>
    /\ UNCHANGED <<replyVars, serverVars, titleVars, timeZoneVars, runs>>

\* httpClient.Do returns; the status check, the decoding, the return
ForecastResponse ==
    /\ fpc = "sent"
    /\ \E o \in HTTPOutcomes : fresult' = ForecastReturn(o, freq.days)
    /\ fpc' = "done"
    /\ UNCHANGED <<apiKey, days, freq>>
    /\ UNCHANGED <<replyVars, serverVars, titleVars, timeZoneVars, runs>>

ForecastNext == ForecastRequest \/ ForecastResponse

(***************************************************************************)
(* TimeZoneTool.Handle (tools/timezone.go).  The args string is modelled   *)
(* by the JSON text it holds: not JSON at all, null, an array, or an       *)
(* object whose three fields are absent, null, a number or a string.       *)
(***************************************************************************)
Absent == [t |-> "absent", s |-> ""]
JSONNull == [t |-> "null", s |-> ""]
JSONNumber == [t |-> "number", s |-> ""]
JSONString(str) == [t |-> "string", s |-> str]

Malformed == [kind |-> "malformed", time |-> Absent, from_timezone |-> Absent, to_timezone |-> Absent]
NullArgs == [kind |-> "null", time |-> Absent, from_timezone |-> Absent, to_timezone |-> Absent]
ArrayArgs == [kind |-> "array", time |-> Absent, from_timezone |-> Absent, to_timezone |-> Absent]
JSONObject(time, from, to) ==
    [kind |-> "object", time |-> time, from_timezone |-> from, to_timezone |-> to]

\* names time.LoadLocation knows; "" is UTC
KnownLocations == {"", "UTC", "Local", "America/New_York", "Europe/Madrid"}

\* texts time.Parse(time.RFC3339, ...) accepts
RFC3339Times == {"2025-12-15T14:00:00Z"}

TimeFields ==
    {Absent, JSONNull, JSONNumber} \cup
    { JSONString(str) : str \in {"", "now", "2025-12-15T14:00:00Z", "tomorrow"} }

ZoneFields ==
    {Absent, JSONNull, JSONNumber} \cup
    { JSONString(str) : str \in {"UTC", "America/New_York", "Mars/Phobos"} }

TimeZoneArguments ==
    {Malformed, NullArgs, ArrayArgs} \cup
    { JSONObject(time, from, to) : time \in TimeFields, from \in ZoneFields, to \in ZoneFields }

\* json.Unmarshal into the params struct fails: no JSON, a value that is
\* neither an object nor null, or a field that is neither a string nor null
UnmarshalFails(args) ==
    \/ args.kind \in {"malformed", "array"}
    \/ /\ args.kind = "object"
       /\ \E f \in {args.time, args.from_timezone, args.to_timezone} : f.t = "number"

\* the value json.Unmarshal leaves in a string field
Decoded(f) == IF f.t = "string" THEN f.s ELSE ""

\* (variant: a time that does not parse is taken as the current time)
TimeZoneToolHandleLenientTime(args) ==
    IF UnmarshalFails(args) THEN Fail("invalid timezone parameters")
    ELSE IF Decoded(args.from_timezone) \notin KnownLocations
    THEN Fail("invalid source timezone")
    ELSE IF Decoded(args.to_timezone) \notin KnownLocations
    THEN Fail("invalid target timezone")
    ELSE Ok("Time Conversion")

\* TimeZoneTool.Handle
TimeZoneToolHandle(args) ==
    IF UnmarshalFails(args) THEN Fail("invalid timezone parameters")
    ELSE IF Decoded(args.from_timezone) \notin KnownLocations
    THEN Fail("invalid source timezone")
    ELSE IF Decoded(args.to_timezone) \notin KnownLocations
    THEN Fail("invalid target timezone")
    ELSE IF Decoded(args.time) \in {"", "now"}
    THEN Ok("Time Conversion")
    ELSE IF Decoded(args.time) \notin RFC3339Times
    THEN Fail("invalid time format")
    ELSE Ok("Time Conversion")

TimeZoneInit ==
    /\ tzArgs \in TimeZoneArguments
    /\ tzpc = "start"
    /\ tzOut = NoHandle

\* one call of Handle
TimeZoneCall ==
    /\ tzpc = "start"
    /\ tzOut' = TimeZoneToolHandle(tzArgs)
    /\ tzpc' = "done"
    /\ UNCHANGED tzArgs
    /\ UNCHANGED <<replyVars, serverVars, titleVars, forecastVars, runs>>

(***************************************************************************)
(* Reply invocations running at once on one Assistant.                     *)
(***************************************************************************)
\* invocations running at once
MaxInvocations == 2

\* responses with a tool call the modelled backend gives one invocation
MaxToolRounds == 2

\* the conversation invocation k is given
ConversationOf(k) ==
    << Msg(RoleUser, "What is the weather in city " \o ToString(k) \o "?") >>

\* the id the backend gives the tool call of the n-th response to invocation
\* k: no two responses share an id
RunCallID(k, n) == 10000 * k + CallID(n, 1)

\* Reply's locals at its start
NewReply ==
    [pc |-> "start", i |-> 0, msgs |-> <<>>, next |-> 0, reply |-> "", err |-> Nil,
     backendCalls |-> 0, sent |-> <<>>]

NewRun(k) == [conv |-> ConversationOf(k), s |-> NewReply, resp |-> NoResponse]

ConcurrentInit ==
    runs = [k \in 1..MaxInvocations |-> NewRun(k)]

\* what the backend can answer to the next call of invocation k
RunResponses(k) ==
    { ErrorResponse("openai: connection reset"), Choice("It is sunny in Barcelona.", <<>>) }
    \cup (IF runs[k].s.backendCalls < MaxToolRounds
          THEN { Choice("", << WithID(FunctionCall("get_weather", GoodArgs),
                                      RunCallID(k, runs[k].s.backendCalls + 1)) >>) }
          ELSE {})

\* invocation k after its next step, with the response r and the network env
Stepped(k, r, env) ==
    [conv |-> runs[k].conv,
     s |-> StepReply(runs[k].s, runs[k].conv, tools, r,
                     IF runs[k].s.pc = "dispatch"
                     THEN Outcome(tools, r.tool_calls[runs[k].s.next], env)
                     ELSE NoHandle),
     resp |-> r]

\* (variant: the history is a field of the Assistant, so a tool result is
\* appended for every invocation that is running)
ReplyStepSharedHistory(k) ==
    /\ runs[k].s.pc # "done"
    /\ \E r \in (IF runs[k].s.pc = "call" THEN RunResponses(k) ELSE {runs[k].resp}),
          env \in (IF runs[k].s.pc = "dispatch" THEN {"ok", "fail"} ELSE {"ok"}) :
          runs' = [j \in 1..MaxInvocations |->
                     IF j = k THEN Stepped(k, r, env)
                     ELSE IF runs[k].s.pc = "dispatch" /\ runs[j].s.pc \in {"call", "dispatch"}
                     THEN [runs[j] EXCEPT !.s.msgs =
                              Append(@, Stepped(k, r, env).s.msgs[Len(Stepped(k, r, env).s.msgs)])]
                     ELSE runs[j]]
    /\ UNCHANGED <<replyVars, serverVars, titleVars, forecastVars, timeZoneVars>>

\* one step of invocation k: the start of Reply, a backend call, or the
\* dispatch of a tool call; the other invocations are where they were
ReplyStep(k) ==
    /\ runs[k].s.pc # "done"
    /\ \E r \in (IF runs[k].s.pc = "call" THEN RunResponses(k) ELSE {runs[k].resp}),
          env \in (IF runs[k].s.pc = "dispatch" THEN {"ok", "fail"} ELSE {"ok"}) :
          runs' = [runs EXCEPT ![k] = Stepped(k, r, env)]
    /\ UNCHANGED <<replyVars, serverVars, titleVars, forecastVars, timeZoneVars>>

ConcurrentNext == \E k \in 1..MaxInvocations : ReplyStep(k)

(***************************************************************************)
(* Specifications: one Reply invocation; the server; one Title.            *)
(***************************************************************************)
vars == <<replyVars, serverVars, titleVars, libVars>>

\* the weather client with its key, about to be asked for three days
ForecastOne == ForecastInit /\ apiKey = WeatherAPIKey /\ days = 3

\* the timezone tool about to be called with the empty object
TimeZoneOne == TimeZoneInit /\ tzArgs = JSONObject(Absent, Absent, Absent)

Init == ReplyInit /\ ServerInit /\ TitleInit /\ ForecastOne /\ TimeZoneOne /\ ConcurrentInit

Next == ReplyStart \/ CallBackend \/ DispatchCall

Spec == Init /\ [][Next]_vars

\* one Reply invocation that keeps running: the step it is at (the start, a
\* backend call, a tool execution) is taken in the end, since the call returns
SpecLive == Init /\ [][Next]_vars /\ WF_vars(Next)

\* one Reply invocation whose ctx can be cancelled while it runs
CancelNext == ReplyStart \/ CallBackend \/ DispatchCall \/ Cancel

SpecCancel == Init /\ [][CancelNext]_vars

\* the server's runs leave the Reply state alone: start from the empty conversation
InitServer == Init /\ conv = <<>>

SpecServer == InitServer /\ [][ServerNext]_vars

\* one Title invocation, on each of the conversations
SpecTitle == Init /\ [][TitleNext]_vars

\* one call on the conversation, Reply or Title
EitherNext ==
    \/ tpc = "start" /\ Next
    \/ pc = "start" /\ TitleNext

SpecEither == Init /\ [][EitherNext]_vars

\* the calls below run on their own: the Reply state stays at the empty conversation
LibInit == ReplyInit /\ conv = <<>> /\ ServerInit /\ TitleInit

\* one GetForecast call, for each key and each days argument
InitForecast == LibInit /\ ForecastInit /\ TimeZoneOne /\ ConcurrentInit

SpecForecast == InitForecast /\ [][ForecastNext]_vars

\* Reply invocations on one Assistant, their steps interleaved
InitConcurrent == LibInit /\ ForecastOne /\ TimeZoneOne /\ ConcurrentInit

SpecConcurrent == InitConcurrent /\ [][ConcurrentNext]_vars

\* one TimeZoneTool.Handle call, for each args
InitTimeZone == LibInit /\ ForecastOne /\ TimeZoneInit /\ ConcurrentInit

SpecTimeZone == InitTimeZone /\ [][TimeZoneCall]_vars


(***************************************************************************)
(* Properties of Reply.                                                    *)
(***************************************************************************)

\* the last backend response asked for tool calls
AskedForTools == resp.kind = "choice" /\ Len(resp.tool_calls) > 0

\* C1: one Reply invocation calls the backend at most 15 times; when the 15th
\* response still asks for tool calls (so every response did), Reply ends in
\* failure with "too many tool calls" and makes no 16th call.
C1_RoundTripLimit ==
    /\ backendCalls <= 15
    /\ (backendCalls = 15 /\ AskedForTools /\ pc # "dispatch") =>
           (pc = "done" /\ reply = "" /\ err = ErrTooManyToolCalls)

C1_Witness ==
    pc = "done" /\ backendCalls = 15 /\ AskedForTools /\ err = ErrTooManyToolCalls

\* a call of a known type whose name matches no registered tool
NamesUnknownTool(call) == KnownType(call) /\ Matches(tools, FunctionName(call)) = {}

\* the unknown-capability condition
ErrUnknownTool(name) == "unknown tool call: " \o name

\* the j-th tool call of the last response has been through Dispatch
Dispatched(j) == AskedForTools /\ j <= Len(resp.tool_calls) /\ (pc # "dispatch" \/ next > j)

\* C2: once a tool call naming an unregistered tool has been dispatched, Reply
\* has ended in failure with the unknown-capability condition, and no backend
\* call follows that response.
C2_UnknownToolIsFatal ==
    \A j \in 1..Len(resp.tool_calls) :
        (NamesUnknownTool(resp.tool_calls[j]) /\ Dispatched(j)) =>
            /\ pc = "done"
            /\ reply = ""
            /\ err = ErrUnknownTool(FunctionName(resp.tool_calls[j]))

\* the ids of the tool-result messages from position from + 1 on
ToolResultIDs(history, from) ==
    [j \in 1..(Len(history) - from) |-> history[from + j].tool_call_id]

\* C3: the history sent on backend call k+1 is the history of call k, then the
\* assistant message of response k, then exactly one tool-result message per
\* tool call of response k, with the requests' ids in the requests' order.
C3_ResultsInRequestOrder ==
    [][ (backendCalls' = backendCalls + 1 /\ backendCalls >= 1) =>
            /\ AskedForTools
            /\ Len(sent') = Len(sent) + 1 + Len(resp.tool_calls)
            /\ SubSeq(sent', 1, Len(sent)) = sent
            /\ sent'[Len(sent) + 1] = ToParam(resp)
            /\ \A j \in 1..Len(resp.tool_calls) : sent'[Len(sent) + 1 + j].role = "tool"
            /\ ToolResultIDs(sent', Len(sent) + 1) =
                   [j \in 1..Len(resp.tool_calls) |-> resp.tool_calls[j].id] ]_vars

\* a second backend call made after a response with two tool calls
C3_Witness ==
    /\ backendCalls = 2
    /\ Len(sent) >= 3
    /\ sent[Len(sent)].role = "tool"
    /\ sent[Len(sent) - 1].role = "tool"
    /\ sent[Len(sent) - 2].role = "assistant"


\* the errors a registered tool's Handle returns
HandleErrors ==
    { "invalid weather parameters", "failed to fetch weather",
      "invalid holiday parameters", "failed to load holiday calendar",
      "invalid timezone parameters", "invalid source timezone" }

\* this step dispatched a tool call whose Handle failed
HandleFailedNow == failed' # failed

\* what a failed Handle leaves in the history: one tool-result message with
\* the request's id appended, nothing else touched
FailureBecomesResult ==
    /\ Len(msgs') = Len(msgs) + 1
    /\ SubSeq(msgs', 1, Len(msgs)) = msgs
    /\ \E e \in HandleErrors :
          msgs'[Len(msgs')] = ToolMessage("Tool failed: " \o e, resp.tool_calls[next].id)

\* C4 as claimed: a failed Handle becomes one tool-result message with the
\* request's id, Reply does not terminate, the remaining tool calls of the
\* response are dispatched and the next backend call is issued.
C4_FailureNeverEndsReply ==
    [][ HandleFailedNow =>
            /\ FailureBecomesResult
            /\ pc' # "done"
            /\ next < Len(resp.tool_calls) => (pc' = "dispatch" /\ next' = next + 1)
            /\ next = Len(resp.tool_calls) => pc' = "call" ]_vars

\* C4 as amended: the same, except that after the 15th response no backend
\* call follows: Reply then ends with the round-trip-limit failure, never
\* with the tool's error.
C4_FailureIsolated ==
    [][ HandleFailedNow =>
            /\ FailureBecomesResult
            /\ next < Len(resp.tool_calls) => (pc' = "dispatch" /\ next' = next + 1)
            /\ (next = Len(resp.tool_calls) /\ backendCalls < 15) => pc' = "call"
            /\ (next = Len(resp.tool_calls) /\ backendCalls = 15) =>
                   (pc' = "done" /\ reply' = "" /\ err' = ErrTooManyToolCalls) ]_vars

\* a failed first call of a two-call response, the second call dispatched,
\* and the next backend call made
C4_Witness ==
    /\ backendCalls >= 2
    /\ \E id \in failed : \E j \in 1..(Len(sent) - 1) :
          sent[j].tool_call_id = id /\ sent[j + 1].role = "tool"

\* C5: a response with neither text nor tool calls (no choices, or a first
\* choice with empty content and no tool calls) ends Reply in failure, with
\* no reply returned.
C5_EmptyResponseFails ==
    (resp.kind = "nochoices" \/
     (resp.kind = "choice" /\ resp.content = "" /\ Len(resp.tool_calls) = 0)) =>
        (pc = "done" /\ reply = "" /\ err # Nil)

\* the responses with tool calls that produced the history: its assistant
\* messages that carry tool calls
ToolRounds(history) ==
    Cardinality({ j \in 1..Len(history) : history[j].tool_calls # <<>> })

ToolResults(history) ==
    Cardinality({ j \in 1..Len(history) : history[j].role = "tool" })

\* C6: when response k is the first without tool calls, Reply returns its
\* text unchanged after exactly k backend calls (the k-1 before it all asked
\* for tools); text on the first round-trip means one backend call and no
\* tool-result message.
C6_TextReturnedVerbatim ==
    (resp.kind = "choice" /\ Len(resp.tool_calls) = 0) =>
        /\ pc = "done"
        /\ reply = resp.content
        /\ err = Nil
        /\ backendCalls = i + 1
        /\ backendCalls = ToolRounds(sent) + 1
        /\ backendCalls <= 15
        /\ backendCalls = 1 => (ToolResults(sent) = 0 /\ handled = 0)

\* text on the second round-trip, after one tool round
C6_Witness ==
    /\ pc = "done"
    /\ resp.kind = "choice"
    /\ Len(resp.tool_calls) = 0
    /\ backendCalls = 2
    /\ reply = "It is sunny in Barcelona."
    /\ ToolResults(sent) = 1

\* C7: a failed backend call ends Reply with that error and an empty reply;
\* no backend call and no Handle execution follows.
C7_BackendErrorIsFinal ==
    /\ [](resp.kind = "error" => (pc = "done" /\ reply = "" /\ err = resp.err))
    /\ [][ resp.kind = "error" =>
              (backendCalls' = backendCalls /\ handled' = handled /\ msgs' = msgs) ]_vars

\* the backend fails on its third call, after tools have run
C7_Witness ==
    /\ resp.kind = "error"
    /\ pc = "done"
    /\ backendCalls = 3
    /\ handled >= 2
    /\ err \in BackendErrors


ReplyState ==
    [pc |-> pc, i |-> i, msgs |-> msgs, next |-> next, reply |-> reply, err |-> err,
     backendCalls |-> backendCalls, sent |-> sent]

\* C17: every step of Reply is a function of the state before it, the
\* conversation, the backend response it consumed and the outcome of the tool
\* it ran: two runs fed the same conversation, responses and tool outcomes make
\* the same backend calls with the same histories and return the same result.
C17_ReplyDeterministic ==
    [][ /\ ReplyState' = StepReply(ReplyState, conv, tools, resp', outcome')
        /\ conv' = conv
        /\ tools' = tools
        /\ sentTools' = IF backendCalls' = backendCalls THEN sentTools
                        ELSE Definitions(tools) ]_vars

\* a run with a failed tool call, a successful one and a text at the end
C17_Witness ==
    /\ pc = "done"
    /\ backendCalls = 3
    /\ failed # {}
    /\ outcome.err = Nil
    /\ outcome.result # ""
    /\ reply = "It is sunny in Barcelona."

\* the names of the registered tools, in the order New registers them
RegistrationOrder == << "get_weather", "get_today_date", "get_holidays", "convert_timezone" >>

\* C18: Definitions gives one definition per registered tool, in registration
\* order; every backend call of a Reply invocation advertises that same list.
C18_DefinitionsStable ==
    /\ [](/\ Len(Definitions(tools)) = Len(tools)
          /\ Definitions(tools) = RegistrationOrder
          /\ backendCalls >= 1 => sentTools = RegistrationOrder)
    /\ [][ (backendCalls >= 1 /\ backendCalls' > backendCalls) =>
              sentTools' = sentTools ]_vars

\* the list advertised on the third round-trip, after tools have run
C18_Witness ==
    /\ backendCalls = 3
    /\ handled >= 2
    /\ sentTools = RegistrationOrder

\* C23: the history of Reply's first backend call is the system message and
\* then every message of the conversation, in order, none left out; every
\* later call's history starts with the same messages.
C23_FirstHistoryIsConversation ==
    backendCalls >= 1 =>
        /\ backendCalls = 1 => Len(sent) = 1 + Len(conv)
        /\ Len(sent) >= 1 + Len(conv)
        /\ sent[1] = SystemMessage(ReplySystemPrompt)
        /\ \A k \in 1..Len(conv) :
              /\ sent[k + 1].role = conv[k].role
              /\ sent[k + 1].content = conv[k].content
              /\ sent[k + 1].tool_calls = <<>>

\* the first call on the conversation of three turns
C23_Witness ==
    /\ backendCalls = 1
    /\ Len(conv) = 3
    /\ Len(sent) = 4
    /\ sent[3].role = "assistant"

\* C26: the history only grows, by appending: every step keeps the messages
\* already in it, in place; the history of a backend call is a strict prefix
\* of the history of the next call; a step that runs a tool appends exactly
\* the one message Dispatch returns.
C26_HistoryOnlyGrows ==
    [][ /\ Len(msgs') >= Len(msgs)
        /\ SubSeq(msgs', 1, Len(msgs)) = msgs
        /\ (backendCalls' = backendCalls + 1 /\ backendCalls >= 1) =>
              /\ Len(sent') > Len(sent)
              /\ SubSeq(sent', 1, Len(sent)) = sent
        /\ handled' # handled =>
              /\ Len(msgs') = Len(msgs) + 1
              /\ msgs'[Len(msgs')].role = "tool" ]_vars

\* a third backend call whose history holds the two earlier rounds
C26_Witness ==
    /\ backendCalls = 3
    /\ Len(sent) >= Len(conv) + 5
    /\ ToolRounds(sent) = 2

\* the last response carries a text together with tool calls
TextWithTools == AskedForTools /\ resp.content # ""

\* C28 as claimed: a response with a text and tool calls is not returned as
\* the reply; its tools are dispatched and another backend call follows.
C28_TextWithToolsCallsAgain ==
    /\ []((TextWithTools /\ pc = "done") => reply # resp.content)
    /\ [][ (backendCalls' = backendCalls + 1 /\ resp'.kind = "choice"
               /\ resp'.content # "" /\ Len(resp'.tool_calls) > 0) =>
              (pc' = "dispatch" /\ msgs' = Append(msgs, ToParam(resp'))) ]_vars
    /\ [][ (TextWithTools /\ pc = "dispatch") =>
              /\ msgs' = Append(msgs, Dispatch(tools, resp.tool_calls[next], "ok"))
                 \/ msgs' = Append(msgs, Dispatch(tools, resp.tool_calls[next], "fail"))
              /\ next = Len(resp.tool_calls) => pc' = "call" ]_vars

\* C28 as amended: the same, except that after the 15th response no backend
\* call follows: Reply ends with the round-trip-limit failure, still without
\* returning the text.
C28_TextWithToolsIsToolResponse ==
    /\ []((TextWithTools /\ pc = "done") =>
             (reply = "" /\ err = ErrTooManyToolCalls /\ backendCalls = 15))
    /\ [][ (backendCalls' = backendCalls + 1 /\ resp'.kind = "choice"
               /\ resp'.content # "" /\ Len(resp'.tool_calls) > 0) =>
              (pc' = "dispatch" /\ msgs' = Append(msgs, ToParam(resp'))) ]_vars
    /\ [][ (TextWithTools /\ pc = "dispatch") =>
              /\ msgs' = Append(msgs, Dispatch(tools, resp.tool_calls[next], "ok"))
                 \/ msgs' = Append(msgs, Dispatch(tools, resp.tool_calls[next], "fail"))
              /\ (next = Len(resp.tool_calls) /\ backendCalls < 15) => pc' = "call"
              /\ (next = Len(resp.tool_calls) /\ backendCalls = 15) =>
                    (pc' = "done" /\ reply' = "" /\ err' = ErrTooManyToolCalls) ]_vars

\* a text with a tool call on the first round, the tool run, the second call
\* made with the text kept in the assistant message of the history
C28_Witness ==
    /\ backendCalls = 2
    /\ handled = 1
    /\ \E k \in 1..Len(sent) :
          /\ sent[k].role = "assistant"
          /\ sent[k].tool_calls # <<>>
          /\ sent[k].content = "It is sunny in Barcelona."

\* the tool call has a type Dispatch knows and a name that was advertised
Advertised(call) ==
    KnownType(call) /\ \E t \in 1..Len(sentTools) : sentTools[t] = FunctionName(call)

\* C30: every registered tool is advertised under its own name, the names
\* are pairwise distinct, and dispatching a tool call runs one Handle, that of
\* the tool with the requested name, when the name was advertised, and no
\* Handle at all otherwise.
C30_AdvertisedIsDispatchable ==
    /\ [](/\ \A t \in 1..Len(tools) : tools[t].defname = tools[t].name
          /\ \A t, u \in 1..Len(tools) : t # u => tools[t].name # tools[u].name)
    /\ [][ pc = "dispatch" =>
              IF Advertised(resp.tool_calls[next])
              THEN /\ handled' = handled + 1
                   /\ Cardinality(Matches(tools, FunctionName(resp.tool_calls[next]))) = 1
                   /\ \E t \in 1..Len(tools), env \in {"ok", "fail"} :
                         /\ tools[t].name = FunctionName(resp.tool_calls[next])
                         /\ outcome' = Handle(tools[t], Arguments(resp.tool_calls[next]), env)
              ELSE /\ handled' = handled
                   /\ outcome' = NoHandle ]_vars

\* both tool calls of one response dispatched, one advertised and one not
C30_Witness ==
    /\ pc = "call"
    /\ backendCalls = 1
    /\ Len(resp.tool_calls) = 2
    /\ handled = 1

\* the steps Reply can still take, at most: the passes of the loop left, each
\* worth a backend call and the dispatch of the largest response
Remaining ==
    IF pc = "done" THEN 0
    ELSE IF pc = "start" THEN MaxRoundTrips * (MaxToolCalls + 1) + 1
    ELSE (MaxRoundTrips - i) * (MaxToolCalls + 1) - (IF pc = "dispatch" THEN next ELSE 0)

\* C27: every Reply invocation whose backend calls and tool executions
\* return comes to its end, with a reply or an error: each step lowers a
\* natural-number bound on the steps left, whatever the backend answers.
C27_ReplyTerminates ==
    /\ <>(pc = "done")
    /\ [][ Remaining' \in Nat /\ Remaining' < Remaining ]_vars

\* Reply ended with a text given by the last backend call the loop allows
C27_Witness ==
    /\ pc = "done"
    /\ err = Nil
    /\ reply # ""
    /\ backendCalls = MaxRoundTrips

\* C16: once ctx is cancelled while Reply runs, no Handle is started and no
\* backend call completes with a response, and Reply ends in failure with
\* the cancellation condition.
C16_CancellationStopsReply ==
    /\ [][ cancelled =>
              /\ handled' = handled
              /\ backendCalls' > backendCalls => resp'.kind = "error" ]_vars
    /\ []((cancelled /\ pc = "done") => (reply = "" /\ err = ErrCanceled))

(***************************************************************************)
(* Properties of StartConversation.                                        *)
(***************************************************************************)

\* StartConversation has returned for a request that passed validation
Served == spc = "returned" /\ titleTask = "done" /\ replyTask = "done"

\* C8: when Title failed and Reply succeeded, StartConversation succeeds and
\* returns the default title "Untitled conversation" with the generated reply.
C8_TitleFailureRecovered ==
    (Served /\ titleRes.err # Nil /\ replyRes.err = Nil) =>
        /\ serr = Nil
        /\ out.title = "Untitled conversation"
        /\ out.reply = replyRes.result
        /\ out.conversation_id = conversation.id

C8_Witness ==
    /\ Served
    /\ titleRes.err # Nil
    /\ replyRes.err = Nil
    /\ out.reply = "Barcelona has beautiful weather today!"

\* C9: when Reply failed, StartConversation fails with the reply's error
\* unchanged and returns no response, whether Title failed or not.
C9_ReplyErrorPropagated ==
    (Served /\ replyRes.err # Nil) => (serr = replyRes.err /\ out = NoOut)

\* Reply failed with the round-trip limit while Title succeeded
C9_Witness ==
    /\ Served
    /\ replyRes.err = ErrTooManyToolCalls
    /\ titleRes.err = Nil
    /\ serr = ErrTooManyToolCalls

\* C10: the repository never holds a conversation whose reply generation
\* failed.
C10_NoConversationWithFailedReply ==
    \A c \in repo : c.id \notin replyFailed

\* a failed request after a stored one
C10_Witness ==
    /\ Served
    /\ replyFailed # {}
    /\ conversation.id \in replyFailed
    /\ repo # {}

\* C11: StartConversation starts the title task and the reply task together,
\* calls Title and Reply exactly once each, and returns only after both tasks
\* have finished, whatever the order in which the two tasks run.
C11_BothTasksOnceThenReturn ==
    /\ titleCalls <= 1
    /\ replyCalls <= 1
    /\ (titleTask = "none") <=> (replyTask = "none")
    /\ (spc = "returned" /\ conversation # NoConversation) =>
           /\ titleTask = "done"
           /\ replyTask = "done"
           /\ titleCalls = 1
           /\ replyCalls = 1

\* the second request returned after both of its tasks ran
C11_Witness ==
    /\ spc = "returned"
    /\ started = 2
    /\ conversation # NoConversation
    /\ titleCalls = 1
    /\ replyCalls = 1
    /\ serr = Nil


\* C19: after a successful StartConversation the repository holds the
\* conversation with exactly two messages, the user's message and then an
\* assistant message with the returned reply, under the returned title; no
\* stored conversation holds a message of any other role.
C19_PersistedConversation ==
    /\ (Served /\ serr = Nil) =>
          /\ conversation \in repo
          /\ conversation.id = out.conversation_id
          /\ conversation.title = out.title
          /\ conversation.messages =
                 << Msg(RoleUser, request), Msg(RoleAssistant, out.reply) >>
    /\ \A c \in repo :
          /\ Len(c.messages) = 2
          /\ \A k \in 1..Len(c.messages) : c.messages[k].role \in {RoleUser, RoleAssistant}

\* a conversation stored with its generated title
C19_Witness ==
    /\ Served
    /\ serr = Nil
    /\ conversation \in repo
    /\ out.title = "Weather in Barcelona"
    /\ out.reply = "Barcelona has beautiful weather today!"

(***************************************************************************)
(* Properties of Title.                                                    *)
(***************************************************************************)

\* Title has returned a title generated by the backend
TitleSucceeded == tpc = "done" /\ conv # <<>> /\ terr = Nil

\* C12: on a non-empty conversation, whatever the backend answered, a title
\* returned without error has at most 80 characters and no newline in it.
C12_TitleShortAndOneLine ==
    TitleSucceeded =>
        /\ Len(title) <= 80
        /\ \A k \in 1..Len(title) : title[k] # "\n"

\* a content of more than 80 characters with a line break inside, cut to 80
C12_Witness ==
    /\ TitleSucceeded
    /\ Len(tresp.content) > 80
    /\ \E k \in 2..(Len(tresp.content) - 1) : tresp.content[k] = "\n"
    /\ Len(title) = 80

\* the characters a title must not start or end with
QuoteOrSpace == WhiteSpace \cup {"\"", "'"}

\* C13: on a non-empty conversation, a title returned without error neither
\* starts nor ends with a whitespace character or a quote.
C13_TitleHasCleanEnds ==
    (TitleSucceeded /\ title # <<>>) =>
        /\ title[1] \notin QuoteOrSpace
        /\ title[Len(title)] \notin QuoteOrSpace

\* C14: for a conversation with no messages Title returns "An empty
\* conversation" and no error, and never calls the backend.
C14_EmptyConversationPlaceholder ==
    conv = <<>> =>
        /\ tcalls = 0
        /\ tpc # "call"
        /\ tpc = "done" => (title = EmptyConversationTitle /\ terr = Nil)

C14_Witness ==
    /\ conv = <<>>
    /\ tpc = "done"
    /\ Len(title) = 21
    /\ tcalls = 0

\* C20: the messages of Title's backend call are the system instruction and
\* the first message of the conversation, nothing after it.
C20_TitleFromFirstMessageOnly ==
    tcalls >= 1 =>
        tmsgs = << SystemMessage(TitleSystemPrompt), UserMessage(conv[1].content) >>

\* C29: a title returned without error for a non-empty conversation is not
\* the empty string.
C29_TitleNotEmpty ==
    TitleSucceeded => title # <<>>

(***************************************************************************)
(* Properties of the conversation passed to Reply and Title.              *)
(***************************************************************************)
\* C22: no step of Reply or of Title changes the conversation it was given:
\* the list of messages, and each message's role and content, stay as they
\* were, on the paths that fail as on those that succeed.
C22_ConversationUnchanged ==
    [][ /\ Len(conv') = Len(conv)
        /\ \A k \in 1..Len(conv) :
              /\ conv'[k].role = conv[k].role
              /\ conv'[k].content = conv[k].content ]_vars

\* a Title that failed on a conversation with an assistant turn
C22_Witness ==
    /\ tpc = "done"
    /\ terr # Nil
    /\ Len(conv) = 3
    /\ conv[2].role = RoleAssistant

(***************************************************************************)
(* Properties of the weather client and of the timezone tool.             *)
(***************************************************************************)
\* C24: the request GetForecast sends asks for the days argument brought
\* into 1..10: 1 for an argument below 1, 10 for one above 10, the argument
\* itself otherwise, for every integer.
C24_DaysClamped ==
    (fpc # "start" /\ apiKey # "") =>
        /\ freq # NoForecastRequest
        /\ freq.days \in 1..10
        /\ days < 1 => freq.days = 1
        /\ days > 10 => freq.days = 10
        /\ days \in 1..10 => freq.days = days

\* a forecast returned for a days argument far below the range
C24_Witness ==
    /\ fpc = "done"
    /\ fresult.err = Nil
    /\ days = -2147483647
    /\ freq.days = 1
    /\ fresult.forecastDays = 1

\* the string a field of the arguments gives, "" when it gives none
Given(f) == IF f.t = "string" THEN f.s ELSE ""

\* the cases in which the source, the target or the time of the arguments is bad
BadZoneOrTime(args) ==
    \/ Given(args.from_timezone) \notin {"", "UTC", "Local", "America/New_York", "Europe/Madrid"}
    \/ Given(args.to_timezone) \notin {"", "UTC", "Local", "America/New_York", "Europe/Madrid"}
    \/ Given(args.time) \notin {"", "now", "2025-12-15T14:00:00Z"}

\* Handle returned an error and no result
TimeZoneFailed == tzOut.err # Nil /\ tzOut.result = ""

\* Handle returned a result and no error
TimeZoneConverted == tzOut.err = Nil /\ tzOut.result # ""

\* C25 (as stated): Handle fails exactly when the arguments are not valid
\* JSON, the source or the target timezone is unknown, or the time is neither
\* "", "now" nor RFC3339, and returns a result in every other case.
C25_FailsOnlyOnInvalidJSON ==
    tzpc = "done" =>
        IF tzArgs.kind = "malformed" \/ BadZoneOrTime(tzArgs)
        THEN TimeZoneFailed
        ELSE TimeZoneConverted

\* C25: Handle fails exactly when the arguments cannot be decoded (they are
\* not JSON, or JSON that is neither null nor an object, or an object with a
\* field that is neither a string nor null), the source or the target
\* timezone is unknown, or the time is neither "", "now" nor RFC3339, and
\* returns a result in every other case.
C25_FailsOnlyOnBadArguments ==
    tzpc = "done" =>
        IF \/ tzArgs.kind \notin {"null", "object"}
           \/ \E f \in {tzArgs.time, tzArgs.from_timezone, tzArgs.to_timezone} :
                 f.t \notin {"absent", "null", "string"}
           \/ BadZoneOrTime(tzArgs)
        THEN TimeZoneFailed
        ELSE TimeZoneConverted

\* Handle refused arguments that are JSON, an array
C25_Witness ==
    /\ tzpc = "done"
    /\ tzArgs.kind = "array"
    /\ tzOut = Fail("invalid timezone parameters")

(***************************************************************************)
(* Properties of Reply invocations running at once.                       *)
(***************************************************************************)
\* the history of invocation k holds the system message, the turns of its own
\* conversation, and then only assistant messages of its own responses and
\* results of tool calls those messages asked for
OwnHistory(k) ==
    LET h == runs[k].s.msgs
        own == 1 + Len(ConversationOf(k))
    IN  \/ h = <<>>
        \/ /\ SubSeq(h, 1, own) = <<SystemMessage(ReplySystemPrompt)>> \o Seed(ConversationOf(k))
           /\ \A n \in (own + 1)..Len(h) :
                 \/ /\ h[n].role = "assistant"
                    /\ \A c \in 1..Len(h[n].tool_calls) : h[n].tool_calls[c].id \div 10000 = k
                 \/ /\ h[n].role = "tool"
                    /\ h[n].tool_call_id \div 10000 = k
                    /\ \E m \in 1..(n - 1) :
                          \E c \in 1..Len(h[m].tool_calls) :
                             h[m].tool_calls[c].id = h[n].tool_call_id

\* C21: with Reply invocations interleaved on one Assistant, the tool list
\* stays as New built it, a step of one invocation changes no other
\* invocation's state, and each invocation's history holds only its own
\* conversation's messages and the results of its own tool calls.
C21_InvocationsIsolated ==
    /\ [](tools = RegisteredTools)
    /\ [](\A k \in 1..MaxInvocations : OwnHistory(k))
    /\ [][ /\ tools' = tools
           /\ \A k, j \in 1..MaxInvocations :
                 (k # j /\ runs'[k] # runs[k]) => runs'[j] = runs[j] ]_vars

\* two invocations in the middle of their tool calls at the same time
C21_Witness ==
    /\ runs[1].s.pc = "dispatch"
    /\ runs[1].s.backendCalls = 2
    /\ runs[2].s.pc = "dispatch"
    /\ runs[2].s.backendCalls = 1

=============================================================================
